---- MODULE Spec2Model ----
(***************************************************************************)
(* Model of the two audiobook chaptering scripts of chapter-cracker:       *)
(*   variant "A" = src/chapter-cracker.ts   (Bun.spawn, no status checks)  *)
(*   variant "B" = src/unnamed/part_000     (Bun.spawnSync, status checks) *)
(* The model starts at the entry of main() and follows one run.            *)
(*                                                                         *)
(* Time values are JavaScript numbers.  A finite number of seconds is kept *)
(* as an integer count of 1/10000 s (0.1 ms), so that x * 1000 followed by *)
(* Math.floor is a real rounding step (Div 10); NaN and +Infinity are kept *)
(* as separate values.  Millisecond values are finite integers, NaN or     *)
(* Infinity as well.                                                       *)
(***************************************************************************)
EXTENDS Integers, Sequences, FiniteSets, TLC

VARIABLES
    variant,        \* which script runs
    pc,             \* position of main()
    silenceState,   \* silencedetect ffmpeg process: "none" | "running" | "exited"
    silenceExit,    \* its exit status
    silenceStderr,  \* its diagnostic text, as the sequence of silence_* occurrences
    silenceStarts,  \* number[]
    silenceEnds,    \* number[]
    probeState,     \* ffprobe process: "none" | "running" | "exited"
    probeExit,      \* its exit status
    probeStdout,    \* its standard output (one lexeme)
    totalDuration,  \* number
    chapters,       \* { start: number; title: string }[]
    metadata,       \* the metadata string, as its sequence of "\n"-terminated lines
    fileWrites,     \* number of completed writeFileSync("chapters.txt", ...)
    fileContent,    \* content of chapters.txt (lines), <<>> while absent
    convertState,   \* mux ffmpeg process: "none" | "running" | "exited"
    convertExit,    \* its exit status
    failure         \* which exit(1) ended the run, "none" otherwise

vars == <<variant, pc, silenceState, silenceExit, silenceStderr, silenceStarts,
          silenceEnds, probeState, probeExit, probeStdout, totalDuration,
          chapters, metadata, fileWrites, fileContent, convertState,
          convertExit, failure>>

----------------------------------------------------------------------------
(* Bounds and input alphabets *)

MaxEvents == 3      \* silence_* occurrences in one report

Variants == {"A", "B"}

\* JavaScript numbers
Fin(n) == [k |-> "fin", v |-> n]
NaN == [k |-> "nan", v |-> 0]
Infinity == [k |-> "inf", v |-> 0]

\* Timestamps printed by the engine, in 1/10000 s: 5.0, 10.5, 45.002
ReportTimes == {50000, 105000, 450020}

\* A timestamp printed without a leading digit: ".5006"
FracTimes == {5006}

\* Durations printed by ffprobe: 100.0, 40.0004, -1.0
ProbeTimes == {1000000, 400004, -10000}

\* Numeric text after "silence_xxx: ":
\*   "num"  digits, optional ".", digits      e.g. "45.002"
\*   "frac" no digit before the "."           e.g. ".5006"
\*   "dots" periods only                      e.g. "."
Lexemes == {[form |-> "num", v |-> t] : t \in ReportTimes}
           \cup {[form |-> "frac", v |-> t] : t \in FracTimes}
           \cup {[form |-> "dots", v |-> 0]}

Events == {[kind |-> "silence_end", lex |-> l] : l \in Lexemes}
          \cup {[kind |-> "silence_start", lex |-> [form |-> "num", v |-> 50000]]}

\* ffprobe output: a decimal, non-numeric text ("N/A", ""), or "Infinity"
ProbeOutputs == {[form |-> "num", v |-> d] : d \in ProbeTimes}
                \cup {[form |-> "text", v |-> 0], [form |-> "inf", v |-> 0]}

ExitCodes == {0, 1}

RECURSIVE SeqsUpTo(_, _)
SeqsUpTo(S, n) ==
    IF n = 0 THEN {<<>>}
    ELSE LET shorter == SeqsUpTo(S, n - 1)
         IN  shorter \cup {Append(s, e) : s \in {q \in shorter : Len(q) = n - 1}, e \in S}

Reports == SeqsUpTo(Events, MaxEvents)

----------------------------------------------------------------------------
(* Pure functions *)

\* parseFloat on a lexeme
parseFloat(lex) ==
    CASE lex.form = "num"  -> Fin(lex.v)
      [] lex.form = "frac" -> Fin(lex.v)
      [] lex.form = "inf"  -> Infinity
      [] OTHER             -> NaN

isNaN(x) == x.k = "nan"

\* variant of FloorMs that rounds to the nearest millisecond (Math.round)
FloorMs_round(x) == IF x.k = "fin" THEN Fin((x.v + 5) \div 10) ELSE x

\* Math.floor(x * 1000): seconds to integer milliseconds
FloorMs(x) == IF x.k = "fin" THEN Fin(x.v \div 10) ELSE x

\* y - 1
MinusOne(y) == IF y.k = "fin" THEN Fin(y.v - 1) ELSE y

\* `${n}` for an integral number, NaN or Infinity
NumStr(y) ==
    CASE y.k = "fin" -> ToString(y.v)
      [] y.k = "nan" -> "NaN"
      [] OTHER       -> "Infinity"

\* /silence_xxx:\s*(\d+\.?\d*)/g : the group needs a leading digit
MatchA(ev, kind) == ev.kind = kind /\ ev.lex.form = "num"

\* /silence_xxx:\s*([\d.]+)/g : the group is any run of digits and periods
MatchB(ev, kind) == ev.kind = kind

RECURSIVE ScanA(_, _)
ScanA(text, kind) ==
    IF text = <<>> THEN <<>>
    ELSE IF MatchA(Head(text), kind)
         THEN <<parseFloat(Head(text).lex)>> \o ScanA(Tail(text), kind)
         ELSE ScanA(Tail(text), kind)

RECURSIVE ScanB(_, _)
ScanB(text, kind) ==
    IF text = <<>> THEN <<>>
    ELSE IF MatchB(Head(text), kind)
         THEN <<parseFloat(Head(text).lex)>> \o ScanB(Tail(text), kind)
         ELSE ScanB(Tail(text), kind)

\* variant of MakeChapters that titles with index + 1
MakeChapters_offByOne(ends) ==
    <<[start |-> Fin(0), title |-> "Chapter 1"]>>
    \o [i \in 1..Len(ends) |->
          [start |-> ends[i], title |-> "Chapter " \o ToString((i - 1) + 1)]]

RECURSIVE Dedup(_)
Dedup(ends) ==
    IF Len(ends) <= 1 THEN ends
    ELSE IF ends[1] = ends[2] THEN Dedup(Tail(ends))
         ELSE <<ends[1]>> \o Dedup(Tail(ends))

\* variant of MakeChapters that drops a repeated timestamp
MakeChapters_dedup(ends) ==
    <<[start |-> Fin(0), title |-> "Chapter 1"]>>
    \o [i \in 1..Len(Dedup(ends)) |->
          [start |-> Dedup(ends)[i], title |-> "Chapter " \o ToString((i - 1) + 2)]]

\* chapters.push({start: 0, ...}); silenceEnds.forEach(...)
MakeChapters(ends) ==
    <<[start |-> Fin(0), title |-> "Chapter 1"]>>
    \o [i \in 1..Len(ends) |->
          [start |-> ends[i], title |-> "Chapter " \o ToString((i - 1) + 2)]]

\* loop body of chapter-cracker.ts for 1-based index i
RecordA(chs, dur, i) ==
    LET startMs == FloorMs(chs[i].start)
        endMs   == IF i < Len(chs) THEN MinusOne(FloorMs(chs[i + 1].start))
                   ELSE FloorMs(dur)
    IN  <<"[CHAPTER]", "TIMEBASE=1/1000">>
        \o <<"START=" \o NumStr(startMs)>>
        \o <<"END=" \o NumStr(endMs)>>
        \o <<"title=" \o chs[i].title, "">>

\* variant of RecordB that emits END before START
RecordB_swapped(chs, dur, i) ==
    LET startMs == FloorMs(chs[i].start)
        endMs   == IF i < Len(chs) THEN MinusOne(FloorMs(chs[i + 1].start))
                   ELSE FloorMs(dur)
    IN  <<"[CHAPTER]">> \o <<"TIMEBASE=1/1000">>
        \o <<"END=" \o NumStr(endMs)>>
        \o <<"START=" \o NumStr(startMs)>>
        \o <<"title=" \o chs[i].title, "">>

\* loop body of part_000 for 1-based index i
RecordB(chs, dur, i) ==
    LET startMs == FloorMs(chs[i].start)
        endMs   == IF i < Len(chs) THEN MinusOne(FloorMs(chs[i + 1].start))
                   ELSE FloorMs(dur)
    IN  <<"[CHAPTER]">> \o <<"TIMEBASE=1/1000">>
        \o <<"START=" \o NumStr(startMs)>>
        \o <<"END=" \o NumStr(endMs)>>
        \o <<"title=" \o chs[i].title, "">>

RECURSIVE LoopA(_, _, _, _)
LoopA(md, chs, dur, i) ==
    IF i > Len(chs) THEN md ELSE LoopA(md \o RecordA(chs, dur, i), chs, dur, i + 1)

RECURSIVE LoopB(_, _, _, _)
LoopB(md, chs, dur, i) ==
    IF i > Len(chs) THEN md ELSE LoopB(md \o RecordB(chs, dur, i), chs, dur, i + 1)

GenerateA(chs, dur) == LoopA(<<";FFMETADATA1">>, chs, dur, 1)
GenerateB(chs, dur) == LoopB(<<";FFMETADATA1">>, chs, dur, 1)

----------------------------------------------------------------------------
(* State machine *)

Init ==
    /\ variant \in Variants
    /\ pc = "spawn_silence"
    /\ silenceState = "none" /\ silenceExit = 0 /\ silenceStderr = <<>>
    /\ silenceStarts = <<>> /\ silenceEnds = <<>>
    /\ probeState = "none" /\ probeExit = 0 /\ probeStdout = [form |-> "text", v |-> 0]
    /\ totalDuration = NaN
    /\ chapters = <<>> /\ metadata = <<>>
    /\ fileWrites = 0 /\ fileContent = <<>>
    /\ convertState = "none" /\ convertExit = 0
    /\ failure = "none"

\* Bun.spawn / Bun.spawnSync of the silencedetect command
SpawnSilence ==
    /\ pc = "spawn_silence"
    /\ silenceState' = "running"
    /\ pc' = "wait_silence"
    /\ UNCHANGED <<variant, silenceExit, silenceStderr, silenceStarts, silenceEnds,
                   probeState, probeExit, probeStdout, totalDuration, chapters,
                   metadata, fileWrites, fileContent, convertState, convertExit, failure>>

\* the engine finishes: its streams reach end of file and it has an exit status
SilenceExits ==
    /\ silenceState = "running"
    /\ \E code \in ExitCodes, text \in Reports :
          /\ silenceExit' = code
          /\ silenceStderr' = text
    /\ silenceState' = "exited"
    /\ UNCHANGED <<variant, pc, silenceStarts, silenceEnds,
                   probeState, probeExit, probeStdout, totalDuration, chapters,
                   metadata, fileWrites, fileContent, convertState, convertExit, failure>>

\* chapter-cracker.ts: await stdout/stderr to end of file, decode; no status check
ReadSilenceA ==
    /\ variant = "A" /\ pc = "wait_silence"
    /\ silenceState = "exited"
    /\ pc' = "parse"
    /\ UNCHANGED <<variant, silenceState, silenceExit, silenceStderr, silenceStarts,
                   silenceEnds, probeState, probeExit, probeStdout, totalDuration,
                   chapters, metadata, fileWrites, fileContent, convertState,
                   convertExit, failure>>

\* part_000: spawnSync returns, decode, exit(1) on a non-zero exit code
ReadSilenceB ==
    /\ variant = "B" /\ pc = "wait_silence"
    /\ silenceState = "exited"
    /\ IF silenceExit # 0
       THEN pc' = "exited" /\ failure' = "silencedetect_failed"
       ELSE pc' = "parse" /\ failure' = failure
    /\ UNCHANGED <<variant, silenceState, silenceExit, silenceStderr, silenceStarts,
                   silenceEnds, probeState, probeExit, probeStdout, totalDuration,
                   chapters, metadata, fileWrites, fileContent, convertState,
                   convertExit>>

\* the two regex loops
ParseSilence ==
    /\ pc = "parse"
    /\ silenceStarts' = IF variant = "A" THEN ScanA(silenceStderr, "silence_start")
                        ELSE ScanB(silenceStderr, "silence_start")
    /\ silenceEnds' = IF variant = "A" THEN ScanA(silenceStderr, "silence_end")
                      ELSE ScanB(silenceStderr, "silence_end")
    /\ pc' = "spawn_probe"
    /\ UNCHANGED <<variant, silenceState, silenceExit, silenceStderr,
                   probeState, probeExit, probeStdout, totalDuration, chapters,
                   metadata, fileWrites, fileContent, convertState, convertExit, failure>>

\* Bun.spawn / Bun.spawnSync of the ffprobe command
SpawnProbe ==
    /\ pc = "spawn_probe"
    /\ probeState' = "running"
    /\ pc' = "wait_probe"
    /\ UNCHANGED <<variant, silenceState, silenceExit, silenceStderr, silenceStarts,
                   silenceEnds, probeExit, probeStdout, totalDuration, chapters,
                   metadata, fileWrites, fileContent, convertState, convertExit, failure>>

\* ffprobe finishes
ProbeExits ==
    /\ probeState = "running"
    /\ \E code \in ExitCodes, out \in ProbeOutputs :
          /\ probeExit' = code
          /\ probeStdout' = out
    /\ probeState' = "exited"
    /\ UNCHANGED <<variant, pc, silenceState, silenceExit, silenceStderr, silenceStarts,
                   silenceEnds, totalDuration, chapters, metadata, fileWrites,
                   fileContent, convertState, convertExit, failure>>

\* variant of ReadProbeA that does not await the end of ffprobe's output
ReadProbeA_nowait ==
    /\ variant = "A" /\ pc = "wait_probe"
    /\ totalDuration' = parseFloat(probeStdout)
    /\ pc' = "chapters"
    /\ UNCHANGED <<variant, silenceState, silenceExit, silenceStderr, silenceStarts,
                   silenceEnds, probeState, probeExit, probeStdout, chapters,
                   metadata, fileWrites, fileContent, convertState, convertExit, failure>>

\* chapter-cracker.ts: await stdout to end of file, trim, parseFloat; no checks
ReadProbeA ==
    /\ variant = "A" /\ pc = "wait_probe"
    /\ probeState = "exited"
    /\ totalDuration' = parseFloat(probeStdout)
    /\ pc' = "chapters"
    /\ UNCHANGED <<variant, silenceState, silenceExit, silenceStderr, silenceStarts,
                   silenceEnds, probeState, probeExit, probeStdout, chapters,
                   metadata, fileWrites, fileContent, convertState, convertExit, failure>>

\* part_000: exit(1) on a non-zero exit code, then parseFloat, exit(1) on NaN
ReadProbeB ==
    /\ variant = "B" /\ pc = "wait_probe"
    /\ probeState = "exited"
    /\ IF probeExit # 0
       THEN /\ pc' = "exited" /\ failure' = "ffprobe_failed"
            /\ totalDuration' = totalDuration
       ELSE /\ totalDuration' = parseFloat(probeStdout)
            /\ IF isNaN(totalDuration')
               THEN pc' = "exited" /\ failure' = "duration_nan"
               ELSE pc' = "chapters" /\ failure' = failure
    /\ UNCHANGED <<variant, silenceState, silenceExit, silenceStderr, silenceStarts,
                   silenceEnds, probeState, probeExit, probeStdout, chapters,
                   metadata, fileWrites, fileContent, convertState, convertExit>>

\* step 4 / 2.4: build the chapters array
CreateChapters ==
    /\ pc = "chapters"
    /\ chapters' = MakeChapters(silenceEnds)
    /\ pc' = "encode"
    /\ UNCHANGED <<variant, silenceState, silenceExit, silenceStderr, silenceStarts,
                   silenceEnds, probeState, probeExit, probeStdout, totalDuration,
                   metadata, fileWrites, fileContent, convertState, convertExit, failure>>

\* step 5 / 2.5: build the metadata string
GenerateMetadata ==
    /\ pc = "encode"
    /\ metadata' = IF variant = "A" THEN GenerateA(chapters, totalDuration)
                   ELSE GenerateB(chapters, totalDuration)
    /\ pc' = "write"
    /\ UNCHANGED <<variant, silenceState, silenceExit, silenceStderr, silenceStarts,
                   silenceEnds, probeState, probeExit, probeStdout, totalDuration,
                   chapters, fileWrites, fileContent, convertState, convertExit, failure>>

\* writeFileSync("chapters.txt", metadata) returns
WriteMetadata ==
    /\ pc = "write"
    /\ fileContent' = metadata
    /\ fileWrites' = fileWrites + 1
    /\ pc' = "spawn_convert"
    /\ UNCHANGED <<variant, silenceState, silenceExit, silenceStderr, silenceStarts,
                   silenceEnds, probeState, probeExit, probeStdout, totalDuration,
                   chapters, metadata, convertState, convertExit, failure>>

\* writeFileSync throws; main() rejects and the catch handler calls exit(1)
WriteThrows ==
    /\ pc = "write"
    /\ pc' = "exited"
    /\ failure' = "unhandled_error"
    /\ UNCHANGED <<variant, silenceState, silenceExit, silenceStderr, silenceStarts,
                   silenceEnds, probeState, probeExit, probeStdout, totalDuration,
                   chapters, metadata, fileWrites, fileContent, convertState, convertExit>>

\* Bun.spawn / Bun.spawnSync of the conversion command
SpawnConvert ==
    /\ pc = "spawn_convert"
    /\ convertState' = "running"
    /\ pc' = "wait_convert"
    /\ UNCHANGED <<variant, silenceState, silenceExit, silenceStderr, silenceStarts,
                   silenceEnds, probeState, probeExit, probeStdout, totalDuration,
                   chapters, metadata, fileWrites, fileContent, convertExit, failure>>

\* the conversion finishes
ConvertExits ==
    /\ convertState = "running"
    /\ \E code \in ExitCodes : convertExit' = code
    /\ convertState' = "exited"
    /\ UNCHANGED <<variant, pc, silenceState, silenceExit, silenceStderr, silenceStarts,
                   silenceEnds, probeState, probeExit, probeStdout, totalDuration,
                   chapters, metadata, fileWrites, fileContent, failure>>

\* chapter-cracker.ts: convertResult = await convertProc.exited is the exit code
\* itself (a number), so convertResult.code is undefined and the test
\* convertResult.code === 0 is false for every exit code
FinishA ==
    /\ variant = "A" /\ pc = "wait_convert"
    /\ convertState = "exited"
    /\ pc' = "exited"
    /\ failure' = "conversion_error"
    /\ UNCHANGED <<variant, silenceState, silenceExit, silenceStderr, silenceStarts,
                   silenceEnds, probeState, probeExit, probeStdout, totalDuration,
                   chapters, metadata, fileWrites, fileContent, convertState, convertExit>>

\* part_000: convertProc.exitCode === 0
FinishB ==
    /\ variant = "B" /\ pc = "wait_convert"
    /\ convertState = "exited"
    /\ IF convertExit = 0
       THEN pc' = "done" /\ failure' = failure
       ELSE pc' = "exited" /\ failure' = "conversion_error"
    /\ UNCHANGED <<variant, silenceState, silenceExit, silenceStderr, silenceStarts,
                   silenceEnds, probeState, probeExit, probeStdout, totalDuration,
                   chapters, metadata, fileWrites, fileContent, convertState, convertExit>>

Next ==
    \/ SpawnSilence
    \/ SilenceExits
    \/ ReadSilenceA
    \/ ReadSilenceB
    \/ ParseSilence
    \/ SpawnProbe
    \/ ProbeExits
    \/ ReadProbeA
    \/ ReadProbeB
    \/ CreateChapters
    \/ GenerateMetadata
    \/ WriteMetadata
    \/ WriteThrows
    \/ SpawnConvert
    \/ ConvertExits
    \/ FinishA
    \/ FinishB

Spec == Init /\ [][Next]_vars

----------------------------------------------------------------------------
(* Reading a chapter document back *)

\* every millisecond value a document of this model can hold
DocMs == {t \div 10 : t \in ReportTimes \cup FracTimes \cup ProbeTimes \cup {0}}
MsCandidates == DocMs \cup {n - 1 : n \in DocMs}

Unreadable == [k |-> "bad", v |-> 0]

\* the number printed after prefix on a line
ReadNum(line, prefix) ==
    LET found == {n \in MsCandidates : line = prefix \o ToString(n)}
    IN  IF found # {} THEN Fin(CHOOSE n \in found : TRUE)
        ELSE IF line = prefix \o "NaN" THEN NaN
        ELSE IF line = prefix \o "Infinity" THEN Infinity
        ELSE Unreadable

NumRecords(doc) == (Len(doc) - 1) \div 6
DocStart(doc, i) == ReadNum(doc[6 * (i - 1) + 4], "START=")
DocEnd(doc, i) == ReadNum(doc[6 * (i - 1) + 5], "END=")
DocTitle(doc, i) == doc[6 * (i - 1) + 6]

IsFin(x) == x.k = "fin"

ChaptersCreated == chapters # <<>>
Encoded == metadata # <<>>
Written == fileWrites > 0

\* some silence-end is smaller than its predecessor
NonMonotonic(ends) ==
    \E k \in 1..(Len(ends) - 1) :
        IsFin(ends[k]) /\ IsFin(ends[k + 1]) /\ ends[k + 1].v < ends[k].v

----------------------------------------------------------------------------
(* Claims *)

\* C1: for every silence-end sequence S (also the empty one) and duration
\* D > 0, chapter creation yields exactly |S|+1 chapters; chapter 1 starts at 0
\* and is titled "Chapter 1"; chapter k+1 starts at S[k] and is titled
\* "Chapter k+1"; creation is never refused.
C1_ChapterCreation ==
    /\ (pc = "chapters") => ENABLED CreateChapters
    /\ (ChaptersCreated /\ IsFin(totalDuration) /\ totalDuration.v > 0) =>
          /\ Len(chapters) = Len(silenceEnds) + 1
          /\ chapters[1] = [start |-> Fin(0), title |-> "Chapter 1"]
          /\ \A k \in 1..Len(silenceEnds) :
                /\ chapters[k + 1].start = silenceEnds[k]
                /\ chapters[k + 1].title = "Chapter " \o ToString(k + 1)
          /\ (silenceEnds = <<>>) => (Len(chapters) = 1)

C1_Witness ==
    /\ ChaptersCreated /\ IsFin(totalDuration) /\ totalDuration.v > 0
    /\ Len(silenceEnds) = 2
    /\ silenceEnds[1] # silenceEnds[2]

\* C2: in the encoded document START[i] = floor(start_i * 1000) for every
\* chapter, END of the last chapter = floor(D * 1000), and END[i] =
\* START[i+1] - 1 for every other chapter (finite values).
C2_EncodedTimes ==
    Encoded =>
        /\ NumRecords(metadata) = Len(chapters)
        /\ \A i \in 1..Len(chapters) :
              IsFin(chapters[i].start) =>
                  DocStart(metadata, i) = Fin(chapters[i].start.v \div 10)
        /\ IsFin(totalDuration) =>
              DocEnd(metadata, Len(chapters)) = Fin(totalDuration.v \div 10)
        /\ \A i \in 1..(Len(chapters) - 1) :
              IsFin(DocStart(metadata, i + 1)) =>
                  DocEnd(metadata, i) = Fin(DocStart(metadata, i + 1).v - 1)

C2_Witness ==
    /\ Encoded
    /\ silenceEnds = <<Fin(105000), Fin(450020)>>
    /\ totalDuration = Fin(1000000)
    /\ DocEnd(metadata, 1) = Fin(10499)
    /\ DocStart(metadata, 2) = Fin(10500) /\ DocEnd(metadata, 2) = Fin(45001)
    /\ DocStart(metadata, 3) = Fin(45002) /\ DocEnd(metadata, 3) = Fin(100000)

\* C3: when the parsed silence-ends are not non-decreasing the run fails: no
\* document is written, no mux is started, and no written document has a
\* chapter whose START is greater than the next chapter's START.
C3_NonMonotonicRejected ==
    /\ (silenceExit = 0 /\ probeExit = 0 /\ IsFin(totalDuration)
          /\ totalDuration.v > 0 /\ NonMonotonic(silenceEnds)) =>
          (fileWrites = 0 /\ convertState = "none")
    /\ Written =>
          \A i \in 1..(NumRecords(fileContent) - 1) :
              (IsFin(DocStart(fileContent, i)) /\ IsFin(DocStart(fileContent, i + 1)))
                  => DocStart(fileContent, i).v <= DocStart(fileContent, i + 1).v

\* C4: when the silence-detection engine ends with a non-zero exit status the
\* run stops there: nothing is parsed, the duration is not probed, no chapters
\* are created, no document is written and the mux engine is not invoked.
C4_SilenceFailureStops ==
    (silenceState = "exited" /\ silenceExit # 0) =>
        /\ silenceEnds = <<>> /\ silenceStarts = <<>>
        /\ pc \in {"wait_silence", "exited"}
        /\ probeState = "none"
        /\ chapters = <<>>
        /\ fileWrites = 0
        /\ convertState = "none"

\* C5: when the probed duration is not a finite non-negative number the run
\* fails before a chapter document is written and before the mux engine is
\* invoked.
C5_InvalidDurationRejected ==
    (Written \/ convertState # "none") =>
        (IsFin(totalDuration) /\ totalDuration.v >= 0)

\* a run on inputs that are valid throughout: both engines exit with status
\* 0, the duration is finite and positive, the silence-ends are finite and
\* non-decreasing
ValidRun ==
    /\ silenceExit = 0 /\ probeExit = 0
    /\ IsFin(totalDuration) /\ totalDuration.v > 0
    /\ \A k \in 1..Len(silenceEnds) : IsFin(silenceEnds[k])
    /\ ~NonMonotonic(silenceEnds)

\* C6: in every document written for an accepted silence-end sequence every
\* chapter has START >= 0, every chapter but the first has END > START, and
\* titles are non-empty and pairwise distinct.
C6_ChapterInvariants ==
    (Written /\ ValidRun) =>
        /\ \A i \in 1..NumRecords(fileContent) :
              /\ IsFin(DocStart(fileContent, i)) /\ DocStart(fileContent, i).v >= 0
              /\ (i > 1) =>
                    /\ IsFin(DocEnd(fileContent, i))
                    /\ DocEnd(fileContent, i).v > DocStart(fileContent, i).v
              /\ DocTitle(fileContent, i) # "title="
        /\ \A i, j \in 1..NumRecords(fileContent) :
              (i # j) => DocTitle(fileContent, i) # DocTitle(fileContent, j)

\* C7: chapter creation happens only after both the silence-detection engine
\* and the duration probe have finished and their output has been read; the
\* mux engine is started only after the document has been written; the
\* document is written at most once.
C7_StageOrder ==
    [][ /\ (chapters' # chapters) =>
              /\ silenceState = "exited" /\ probeState = "exited"
              /\ pc = "chapters"
        /\ (pc' = "chapters" /\ pc # "chapters") =>
              (silenceState = "exited" /\ probeState = "exited")
        /\ (convertState' # convertState /\ convertState = "none") => fileWrites = 1
        /\ (fileWrites' # fileWrites) => (fileWrites = 0 /\ fileWrites' = 1)
      ]_vars

C7_Witness == pc = "done" /\ fileWrites = 1 /\ convertState = "exited"

\* the framing of a chapter document of n records, whatever its numbers
Framed(doc, n) ==
    /\ Len(doc) = 1 + 6 * n
    /\ doc[1] = ";FFMETADATA1"
    /\ \A i \in 1..n :
          /\ doc[6 * (i - 1) + 2] = "[CHAPTER]"
          /\ doc[6 * (i - 1) + 3] = "TIMEBASE=1/1000"
          /\ DocStart(doc, i) # Unreadable
          /\ DocEnd(doc, i) # Unreadable
          /\ doc[6 * (i - 1) + 6] = "title=Chapter " \o ToString(i)
          /\ doc[6 * (i - 1) + 7] = ""

\* C8: the written document is the header line once, then |S|+1 records in
\* ascending order, each "[CHAPTER]", "TIMEBASE=1/1000", "START=<ms>",
\* "END=<ms>", "title=Chapter <ordinal>" and one blank line, <ms> being an
\* integer number of milliseconds.
C8_DocumentFormat ==
    Written =>
        /\ Framed(fileContent, Len(silenceEnds) + 1)
        /\ \A i \in 1..NumRecords(fileContent) :
              IsFin(DocStart(fileContent, i)) /\ IsFin(DocEnd(fileContent, i))

\* The framing alone (lines, order, blank lines, titles, record count) is kept
\* in every written document.
DocumentFraming == Written => Framed(fileContent, Len(silenceEnds) + 1)

\* C9: silence-ends are neither deduplicated nor clamped: two equal
\* consecutive silence-ends give two chapters with the same START, a
\* silence-end at or beyond the duration still gives a chapter starting
\* there, and neither case stops chapter creation or encoding.
C9_NoNormalisation ==
    /\ (pc = "chapters") => ENABLED CreateChapters
    /\ (pc = "encode") => ENABLED GenerateMetadata
    /\ Encoded =>
          /\ NumRecords(metadata) = Len(silenceEnds) + 1
          /\ \A k \in 1..Len(silenceEnds) :
                /\ chapters[k + 1].start = silenceEnds[k]
                /\ IsFin(silenceEnds[k]) =>
                      DocStart(metadata, k + 1) = Fin(silenceEnds[k].v \div 10)
          /\ \A k \in 1..(Len(silenceEnds) - 1) :
                (silenceEnds[k] = silenceEnds[k + 1]) =>
                    /\ DocStart(metadata, k + 1) = DocStart(metadata, k + 2)
                    /\ DocTitle(metadata, k + 1) # DocTitle(metadata, k + 2)
    /\ Written => fileContent = metadata

C9_Witness ==
    /\ Written
    /\ totalDuration = Fin(400004)
    /\ silenceEnds = <<Fin(450020), Fin(450020)>>
    /\ DocStart(fileContent, 2) = Fin(45002)
    /\ DocStart(fileContent, 3) = Fin(45002)
    /\ DocEnd(fileContent, 3) = Fin(40000)

\* C10: when both engines exit with status 0 and the duration is finite, the
\* two scripts write the same document for the same silence-ends and
\* duration; part_000 is past its checks only with zero exit statuses and a
\* duration that is not NaN, chapter-cracker.ts never stops on those.
C10_VariantsAgree ==
    /\ (Written /\ silenceExit = 0 /\ probeExit = 0 /\ IsFin(totalDuration)) =>
          /\ fileContent = GenerateA(MakeChapters(silenceEnds), totalDuration)
          /\ fileContent = GenerateB(MakeChapters(silenceEnds), totalDuration)
    /\ (variant = "B" /\ ChaptersCreated) =>
          (silenceExit = 0 /\ probeExit = 0 /\ ~isNaN(totalDuration))
    /\ (variant = "B" /\ silenceState = "exited" /\ silenceExit # 0) =>
          pc \in {"wait_silence", "exited"}
    /\ (variant = "B" /\ probeState = "exited" /\ probeExit # 0) =>
          pc \in {"wait_probe", "exited"}
    /\ (variant = "A") =>
          failure \in {"none", "unhandled_error", "conversion_error"}
    /\ (variant = "A" /\ pc = "wait_silence" /\ silenceState = "exited") =>
          ENABLED ReadSilenceA
    /\ (variant = "A" /\ pc = "wait_probe" /\ probeState = "exited") =>
          ENABLED ReadProbeA

C10_Witness ==
    /\ Written /\ silenceExit = 0 /\ probeExit = 0 /\ IsFin(totalDuration)
    /\ Len(silenceEnds) = 3

====
